---- MODULE Spec2Model ----
(***************************************************************************)
(* Model of the read-aloud recorder backend (src/app.py): the Firebase     *)
(* bucket as a blob store, the per-session mapping file, the               *)
(* /upload-audio and /download-recordings handlers, one step per Blob      *)
(* Store call, and the /upload-sentences handler with its sentence file.   *)
(* Text (sentences, file names, JSON, TSV) is a sequence of                *)
(* characters; a word such as "Hello." stands for a run of ordinary        *)
(* characters, while the characters the code treats specially (line feed,  *)
(* tab, quote, braces, separators) are single elements.                    *)
(***************************************************************************)
EXTENDS Naturals, Integers, Sequences, FiniteSets, TLC

\* Number of HTTP requests issued in one run.
MaxRequests == 4

----------------------------------------------------------------------------
\* Inputs

\* Values of session['session_id'] (uuid4 strings).
Sessions == {"A", "B"}

\* Values of the form field sentence_text; the second holds a line feed.
Sentences == { <<"Hello.">>, <<"Hello.", "\n", "World.">> }

\* Payloads of the form file "audio".
Audio == { <<"B1">>, <<"B2">> }

\* Flask worker threads handling requests.
Workers == {"w1", "w2"}

----------------------------------------------------------------------------
\* Paths and file names

Md5Hex(sentence) ==
    CASE sentence = <<"Hello.">> -> <<"f9776f93ac975cd47b598e34d9242d18">>
      [] sentence = <<"Hello.", "\n", "World.">> -> <<"eb3997102638dd5be57f7dd5a504b91f">>

Filename(sentence) == Md5Hex(sentence) \o <<".webm">>

\* Faulty variant: one mapping file, not keyed by the caller's session.
get_shared_mapping_path(session_id) == <<"A", "/", "mapping.json">>

get_user_mapping_path(session_id) == <<session_id, "/", "mapping.json">>

get_user_audio_path(session_id, filename) == <<session_id, "/">> \o filename

\* The blobs of a session are those whose path starts with "{session_id}/".
UnderPrefix(path, session_id) ==
    Len(path) >= 2 /\ path[1] = session_id /\ path[2] = "/"

Paths ==
    { get_user_mapping_path(s) : s \in Sessions }
      \cup { get_user_audio_path(s, Filename(t)) : s \in Sessions, t \in Sentences }

----------------------------------------------------------------------------
\* Blobs

NoBlob == [content_type |-> "", data |-> <<>>]

AudioBlob(bytes) == [content_type |-> "audio/webm", data |-> bytes]

JsonBlob(text) == [content_type |-> "application/json", data |-> text]

EmptyStore == [path \in Paths |-> NoBlob]

Exists(st, path) == st[path] # NoBlob

----------------------------------------------------------------------------
\* dict: a sequence of <<key, value>> pairs with distinct keys, in insertion
\* order.

Range(seq) == { seq[i] : i \in 1..Len(seq) }

Keys(d) == { d[i][1] : i \in 1..Len(d) }

Lookup(d, k) == (CHOOSE i \in 1..Len(d) : d[i][1] = k)

\* d[k] = v : an existing key keeps its place, a new key goes last.
DictSet(d, k, v) ==
    IF k \in Keys(d)
      THEN [d EXCEPT ![Lookup(d, k)] = <<k, v>>]
      ELSE Append(d, <<k, v>>)

DictGet(d, k) == d[Lookup(d, k)][2]

----------------------------------------------------------------------------
\* json.dumps / json.load of a dict of strings

RECURSIVE JoinWith(_, _)
JoinWith(seqs, sep) ==
    IF seqs = <<>> THEN <<>>
    ELSE IF Len(seqs) = 1 THEN seqs[1]
    ELSE seqs[1] \o sep \o JoinWith(Tail(seqs), sep)

JsonEscape(c) ==
    CASE c = "\n" -> "\\n"
      [] c = "\t" -> "\\t"
      [] c = "\"" -> "\\\""
      [] c = "\\" -> "\\\\"
      [] OTHER -> c

JsonUnescape(c) ==
    CASE c = "\\n" -> "\n"
      [] c = "\\t" -> "\t"
      [] c = "\\\"" -> "\""
      [] c = "\\\\" -> "\\"
      [] OTHER -> c

JsonString(s) == <<"\"">> \o [i \in 1..Len(s) |-> JsonEscape(s[i])] \o <<"\"">>

Dumps(d) ==
    <<"{">>
      \o JoinWith([i \in 1..Len(d) |->
                     JsonString(d[i][1]) \o <<":">> \o JsonString(d[i][2])],
                  <<",">>)
      \o <<"}">>

\* The string literal that opens at text[i]: its value and the index after it.
ParseString(text, i) ==
    LET close == CHOOSE j \in (i+1)..Len(text) :
                     /\ text[j] = "\""
                     /\ \A k \in (i+1)..(j-1) : text[k] # "\""
    IN  [val  |-> [k \in 1..(close - i - 1) |-> JsonUnescape(text[i + k])],
         next |-> close + 1]

RECURSIVE ParseMembers(_, _, _)
ParseMembers(text, i, d) ==
    IF text[i] = "}" THEN d
    ELSE LET k  == ParseString(text, i)
             v  == ParseString(text, k.next + 1)
             d2 == DictSet(d, k.val, v.val)
         IN  IF text[v.next] = "," THEN ParseMembers(text, v.next + 1, d2)
                                   ELSE d2

Loads(text) == ParseMembers(text, 2, <<>>)

----------------------------------------------------------------------------
\* The manifest and the archive

\* "audio_filename\tsentence\n" + '\n'.join(f"{fn}\t{sent}" ...)
TsvContent(d) ==
    <<"audio_filename", "\t", "sentence", "\n">>
      \o JoinWith([i \in 1..Len(d) |-> d[i][1] \o <<"\t">> \o d[i][2]], <<"\n">>)

ZipEntry(name, data) == [name |-> name, data |-> data]

MappingTsv == <<"mapping.tsv">>

----------------------------------------------------------------------------
\* State

VARIABLES
    bucket,     \* TRUE: storage.bucket(); FALSE: bucket = None
    store,      \* the bucket's blobs, by path
    pc,         \* per worker: the Blob Store call its request makes next
    req,        \* per worker: the request (route, session, form fields)
    mappings,   \* per worker: the local variable mappings
    idx,        \* per worker: position of the for loop over mappings.items()
    zf,         \* per worker: the entries written to the ZipFile so far
    result,     \* per worker: the response, once the handler has ended
    nreq,       \* requests issued so far
    store0,     \* per worker: the store when its request began
    failed,     \* per worker: "audio" or "mapping", the blob on which a call
                \* raised; "" if none did
    last,       \* per session: route and response of its last finished request
    rec,        \* per session: sentence -> audio last uploaded with
                \* 'Audio received' since the last download request
    pure,       \* per session: so far only uploads that returned 200
    order,      \* per session: the file names recorded with 'Audio received'
                \* since the last archive, in the order of their first recording
    sentences_file, \* the file LOCAL_SENTENCES_FILE on the server's disk
    ingested    \* the last /upload-sentences request: who sent it, the text
                \* of its file, the list the response carries, and the
                \* sentence file as it was before the request

history   == <<last, rec, pure, order>>
ingestion == <<sentences_file, ingested>>
vars      == <<bucket, store, pc, req, mappings, idx, zf, result, nreq,
               store0, failed, last, rec, pure, order, sentences_file, ingested>>

NoReq == [route |-> "", session_id |-> "", sentence |-> <<>>, audio |-> <<>>]

NoAudio == <<>>

NoLast == [route |-> "", result |-> ""]

NoFile == [exists |-> FALSE, text |-> <<>>]

NoIngest == [session_id |-> "", text |-> <<>>, response |-> <<>>,
             before |-> NoFile]

Init ==
    /\ bucket \in BOOLEAN
    /\ store = EmptyStore
    /\ pc = [p \in Workers |-> "idle"]
    /\ req = [p \in Workers |-> NoReq]
    /\ mappings = [p \in Workers |-> <<>>]
    /\ idx = [p \in Workers |-> 0]
    /\ zf = [p \in Workers |-> <<>>]
    /\ result = [p \in Workers |-> ""]
    /\ nreq = 0
    /\ store0 = [p \in Workers |-> EmptyStore]
    /\ failed = [p \in Workers |-> ""]
    /\ last = [s \in Sessions |-> NoLast]
    /\ rec = [s \in Sessions |-> [t \in Sentences |-> NoAudio]]
    /\ pure = [s \in Sessions |-> TRUE]
    /\ order = [s \in Sessions |-> <<>>]
    /\ sentences_file = NoFile
    /\ ingested = NoIngest

----------------------------------------------------------------------------
\* Where a worker is

SessionOf(p) == req[p].session_id

MappingPath(p) == get_user_mapping_path(SessionOf(p))

\* upload_audio: the file name derived from sentence_text.
UploadName(p) == Filename(req[p].sentence)

\* download_recordings: the file name of the loop's current item.
LoopName(p) == mappings[p][idx[p]][1]

AudioPath(p) ==
    get_user_audio_path(SessionOf(p),
        IF req[p].route = "/upload-audio" THEN UploadName(p) ELSE LoopName(p))

AudioCalls ==
    {"ua_upload", "dr_audio_exists", "dr_audio_download",
     "dr_delete_exists", "dr_delete"}

MappingCalls ==
    {"ua_load_exists", "ua_load_download", "ua_save",
     "dr_load_exists", "dr_load_download",
     "dr_mapping_exists", "dr_mapping_delete"}

StoreCalls == AudioCalls \cup MappingCalls

\* The path of the Blob Store call the worker makes next.
CallPath(p) == IF pc[p] \in AudioCalls THEN AudioPath(p) ELSE MappingPath(p)

Goto(p, label) == pc' = [pc EXCEPT ![p] = label]

\* The handler returns a response.
Respond(p, r) ==
    /\ pc' = [pc EXCEPT ![p] = "done"]
    /\ result' = [result EXCEPT ![p] = r]

\* The call the worker makes raises; no handler catches it, so the handler's
\* locals are lost (the ZipFile with them) and the request ends with a 500.
Raise(p) ==
    /\ Respond(p, "500")
    /\ failed' = [failed EXCEPT ![p] =
                     IF pc[p] \in AudioCalls THEN "audio" ELSE "mapping"]
    /\ mappings' = [mappings EXCEPT ![p] = <<>>]
    /\ idx' = [idx EXCEPT ![p] = 0]
    /\ zf' = [zf EXCEPT ![p] = <<>>]

\* Every worker is free: no request is being handled.
Serial == \A q \in Workers : pc[q] = "idle"

\* The worker that handles every request when requests come one at a time.
SerialWorker == "w1"

----------------------------------------------------------------------------
\* POST /upload-audio

\* A request arrives: lines 119-127.
UploadAudio(p, s, t, a) ==
    /\ pc[p] = "idle"
    /\ nreq < MaxRequests
    /\ nreq' = nreq + 1
    /\ req' = [req EXCEPT ![p] = [route |-> "/upload-audio", session_id |-> s,
                                  sentence |-> t, audio |-> a]]
    /\ Goto(p, "ua_upload")
    /\ store0' = [store0 EXCEPT ![p] = store]
    /\ UNCHANGED <<bucket, ingestion, store, mappings, idx, zf, result, failed, history>>

\* Faulty variant: the handler goes on to the mapping without having stored
\* the blob.
UploadToFirebaseSkipped(p) ==
    /\ pc[p] = "ua_upload"
    /\ Goto(p, "ua_load_exists")
    /\ UNCHANGED <<bucket, ingestion, store, req, mappings, idx, zf, result, nreq,
                   store0, failed, history>>

\* upload_to_firebase(audio, audio_path): stores the blob, or does nothing
\* without a bucket.
UploadToFirebase(p) ==
    /\ pc[p] = "ua_upload"
    /\ store' = IF bucket
                  THEN [store EXCEPT ![AudioPath(p)] = AudioBlob(req[p].audio)]
                  ELSE store
    /\ Goto(p, "ua_load_exists")
    /\ UNCHANGED <<bucket, ingestion, req, mappings, idx, zf, result, nreq,
                   store0, failed, history>>

\* Faulty variant: the save upserts into the mapping as stored at the time of
\* the save, not into the one the request loaded.
SaveUserMappingsMerged(p) ==
    /\ pc[p] = "ua_save"
    /\ LET stored  == IF bucket /\ Exists(store, MappingPath(p))
                        THEN Loads(store[MappingPath(p)].data)
                        ELSE <<>>
           updated == DictSet(stored, UploadName(p), req[p].sentence)
       IN  /\ mappings' = [mappings EXCEPT ![p] = updated]
           /\ store' = IF bucket
                         THEN [store EXCEPT ![MappingPath(p)] = JsonBlob(Dumps(updated))]
                         ELSE store
    /\ Respond(p, "200")
    /\ UNCHANGED <<bucket, ingestion, req, idx, zf, nreq, store0, failed, history>>

\* save_user_mappings(session_id, mappings) after mappings[filename] = sentence,
\* then return 'Audio received', 200.
SaveUserMappings(p) ==
    /\ pc[p] = "ua_save"
    /\ LET updated == DictSet(mappings[p], UploadName(p), req[p].sentence)
       IN  /\ mappings' = [mappings EXCEPT ![p] = updated]
           /\ store' = IF bucket
                         THEN [store EXCEPT ![MappingPath(p)] = JsonBlob(Dumps(updated))]
                         ELSE store
    /\ Respond(p, "200")
    /\ UNCHANGED <<bucket, ingestion, req, idx, zf, nreq, store0, failed, history>>

----------------------------------------------------------------------------
\* load_user_mappings, called by both handlers

\* What the handler does with the loaded mappings: upload_audio goes on to
\* save; download_recordings returns 404 when they are empty and otherwise
\* enters the loop over mappings.items().
AfterLoad(p, loaded) ==
    /\ mappings' = [mappings EXCEPT ![p] = loaded]
    /\ IF req[p].route = "/upload-audio"
         THEN Goto(p, "ua_save") /\ UNCHANGED <<idx, result>>
         ELSE IF loaded = <<>>
           THEN Respond(p, "404") /\ UNCHANGED idx
           ELSE /\ Goto(p, "dr_audio_exists")
                /\ idx' = [idx EXCEPT ![p] = 1]
                /\ UNCHANGED result

\* Faulty variant: a missing mapping is created empty on load.
LoadExistsCreates(p) ==
    /\ pc[p] \in {"ua_load_exists", "dr_load_exists"}
    /\ IF bucket /\ Exists(store, MappingPath(p))
         THEN /\ Goto(p, IF req[p].route = "/upload-audio"
                           THEN "ua_load_download"
                           ELSE "dr_load_download")
              /\ UNCHANGED <<store, mappings, idx, result>>
         ELSE /\ AfterLoad(p, <<>>)
              /\ store' = IF bucket
                            THEN [store EXCEPT ![MappingPath(p)] = JsonBlob(Dumps(<<>>))]
                            ELSE store
    /\ UNCHANGED <<bucket, ingestion, req, zf, nreq, store0, failed, history>>

\* download_from_firebase(mapping_path) up to blob.exists(): None without a
\* bucket or without the blob.
LoadExists(p) ==
    /\ pc[p] \in {"ua_load_exists", "dr_load_exists"}
    /\ IF bucket /\ Exists(store, MappingPath(p))
         THEN /\ Goto(p, IF req[p].route = "/upload-audio"
                           THEN "ua_load_download"
                           ELSE "dr_load_download")
              /\ UNCHANGED <<mappings, idx, result>>
         ELSE AfterLoad(p, <<>>)
    /\ UNCHANGED <<bucket, ingestion, store, req, zf, nreq, store0, failed, history>>

\* blob.download_to_file(data) and json.load(data); the download raises when
\* the blob is gone.
LoadDownload(p) ==
    /\ pc[p] \in {"ua_load_download", "dr_load_download"}
    /\ IF Exists(store, MappingPath(p))
         THEN /\ AfterLoad(p, Loads(store[MappingPath(p)].data))
              /\ UNCHANGED <<zf, failed>>
         ELSE Raise(p)
    /\ UNCHANGED <<bucket, ingestion, store, req, nreq, store0, history>>

----------------------------------------------------------------------------
\* GET /download-recordings

\* A request arrives: line 140.
DownloadRecordings(p, s) ==
    /\ pc[p] = "idle"
    /\ nreq < MaxRequests
    /\ nreq' = nreq + 1
    /\ req' = [req EXCEPT ![p] = [route |-> "/download-recordings",
                                  session_id |-> s,
                                  sentence |-> <<>>, audio |-> <<>>]]
    /\ Goto(p, "dr_load_exists")
    /\ store0' = [store0 EXCEPT ![p] = store]
    /\ UNCHANGED <<bucket, ingestion, store, mappings, idx, zf, result, failed, history>>

\* The for loop moves to its next item; after the last one the handler
\* writes mapping.tsv and leaves the with block.
NextItem(p) ==
    IF idx[p] < Len(mappings[p])
      THEN /\ idx' = [idx EXCEPT ![p] = @ + 1]
           /\ zf' = zf
           /\ Goto(p, "dr_audio_exists")
      ELSE /\ idx' = idx
           /\ zf' = [zf EXCEPT ![p] =
                       Append(@, ZipEntry(MappingTsv, TsvContent(mappings[p])))]
           /\ Goto(p, "dr_mapping_exists")

\* download_from_firebase(audio_path) up to blob.exists(); None skips the item.
AudioExists(p) ==
    /\ pc[p] = "dr_audio_exists"
    /\ IF bucket /\ Exists(store, AudioPath(p))
         THEN Goto(p, "dr_audio_download") /\ UNCHANGED <<idx, zf>>
         ELSE NextItem(p)
    /\ UNCHANGED <<bucket, ingestion, store, req, mappings, result, nreq,
                   store0, failed, history>>

\* blob.download_to_file(data), then zf.writestr(filename, audio_data.read()).
AudioDownload(p) ==
    /\ pc[p] = "dr_audio_download"
    /\ IF Exists(store, AudioPath(p))
         THEN /\ zf' = [zf EXCEPT ![p] =
                          Append(@, ZipEntry(LoopName(p), store[AudioPath(p)].data))]
              /\ Goto(p, "dr_delete_exists")
              /\ UNCHANGED <<mappings, idx, result, failed>>
         ELSE Raise(p)
    /\ UNCHANGED <<bucket, ingestion, store, req, nreq, store0, history>>

\* Faulty variant: the blob written to the archive is never deleted.
DeleteExistsSkips(p) ==
    /\ pc[p] = "dr_delete_exists"
    /\ NextItem(p)
    /\ UNCHANGED <<bucket, ingestion, store, req, mappings, result, nreq,
                   store0, failed, history>>

\* delete_from_firebase(audio_path) up to blob.exists().
DeleteExists(p) ==
    /\ pc[p] = "dr_delete_exists"
    /\ IF bucket /\ Exists(store, AudioPath(p))
         THEN Goto(p, "dr_delete") /\ UNCHANGED <<idx, zf>>
         ELSE NextItem(p)
    /\ UNCHANGED <<bucket, ingestion, store, req, mappings, result, nreq,
                   store0, failed, history>>

\* blob.delete() of the audio blob; it raises when the blob is gone.
DeleteBlob(p) ==
    /\ pc[p] = "dr_delete"
    /\ IF Exists(store, AudioPath(p))
         THEN /\ store' = [store EXCEPT ![AudioPath(p)] = NoBlob]
              /\ NextItem(p)
              /\ UNCHANGED <<mappings, result, failed>>
         ELSE Raise(p) /\ UNCHANGED store
    /\ UNCHANGED <<bucket, ingestion, req, nreq, store0, history>>

\* delete_from_firebase(mapping_path) up to blob.exists(); then send_file.
MappingExists(p) ==
    /\ pc[p] = "dr_mapping_exists"
    /\ IF bucket /\ Exists(store, MappingPath(p))
         THEN Goto(p, "dr_mapping_delete") /\ UNCHANGED result
         ELSE Respond(p, "zip")
    /\ UNCHANGED <<bucket, ingestion, store, req, mappings, idx, zf, nreq,
                   store0, failed, history>>

\* Faulty variant: the archive is sent and the mapping blob is left in place.
MappingDeleteKept(p) ==
    /\ pc[p] = "dr_mapping_delete"
    /\ Respond(p, "zip")
    /\ UNCHANGED <<bucket, ingestion, store, req, mappings, idx, zf, nreq,
                   store0, failed, history>>

\* blob.delete() of the mapping blob, then send_file(memory_file, ...).
MappingDelete(p) ==
    /\ pc[p] = "dr_mapping_delete"
    /\ IF Exists(store, MappingPath(p))
         THEN /\ store' = [store EXCEPT ![MappingPath(p)] = NoBlob]
              /\ Respond(p, "zip")
              /\ UNCHANGED <<mappings, idx, zf, failed>>
         ELSE Raise(p) /\ UNCHANGED store
    /\ UNCHANGED <<bucket, ingestion, req, nreq, store0, history>>

----------------------------------------------------------------------------
\* Failures and responses

\* Faulty variant: a failed audio upload is caught and the handler goes on
\* to the mapping.
StorageErrorSwallowed(p) ==
    /\ pc[p] \in StoreCalls
    /\ bucket
    /\ IF pc[p] = "ua_upload"
         THEN /\ Goto(p, "ua_load_exists")
              /\ failed' = [failed EXCEPT ![p] = "audio"]
              /\ UNCHANGED <<result, mappings, idx, zf>>
         ELSE Raise(p)
    /\ UNCHANGED <<bucket, ingestion, store, req, nreq, store0, history>>

\* The Blob Store call the worker is about to make fails (network, quota,
\* permission): the client library raises and the store is as it was.
StorageError(p) ==
    /\ pc[p] \in StoreCalls
    /\ bucket
    /\ Raise(p)
    /\ UNCHANGED <<bucket, ingestion, store, req, nreq, store0, history>>

\* The response leaves the worker; the session's history is brought up to
\* date and the worker's locals are dropped.
Finish(p) ==
    /\ pc[p] = "done"
    /\ LET s == SessionOf(p)
           upload == req[p].route = "/upload-audio"
       IN  /\ last' = [last EXCEPT ![s] =
                         [route |-> req[p].route, result |-> result[p]]]
           /\ rec' = [rec EXCEPT ![s] =
                        IF ~upload THEN [t \in Sentences |-> NoAudio]
                        ELSE IF result[p] = "200"
                          THEN [@ EXCEPT ![req[p].sentence] = req[p].audio]
                          ELSE @]
           /\ pure' = [pure EXCEPT ![s] = @ /\ upload /\ result[p] = "200"]
           /\ order' = [order EXCEPT ![s] =
                          IF upload /\ result[p] = "200" /\ UploadName(p) \notin Range(@)
                            THEN Append(@, UploadName(p))
                          ELSE IF ~upload /\ result[p] = "zip" THEN <<>>
                          ELSE @]
    /\ pc' = [pc EXCEPT ![p] = "idle"]
    /\ req' = [req EXCEPT ![p] = NoReq]
    /\ mappings' = [mappings EXCEPT ![p] = <<>>]
    /\ idx' = [idx EXCEPT ![p] = 0]
    /\ zf' = [zf EXCEPT ![p] = <<>>]
    /\ result' = [result EXCEPT ![p] = ""]
    /\ store0' = [store0 EXCEPT ![p] = EmptyStore]
    /\ failed' = [failed EXCEPT ![p] = ""]
    /\ UNCHANGED <<bucket, ingestion, store, nreq>>

----------------------------------------------------------------------------
\* Requests handled one at a time

Step(p) ==
    \/ UploadToFirebase(p)
    \/ LoadExists(p)
    \/ LoadDownload(p)
    \/ SaveUserMappings(p)
    \/ AudioExists(p)
    \/ AudioDownload(p)
    \/ DeleteExists(p)
    \/ DeleteBlob(p)
    \/ MappingExists(p)
    \/ MappingDelete(p)
    \/ StorageError(p)
    \/ Finish(p)

Next ==
    \/ \E s \in Sessions, t \in Sentences, a \in Audio :
          Serial /\ UploadAudio(SerialWorker, s, t, a)
    \/ \E s \in Sessions :
          Serial /\ DownloadRecordings(SerialWorker, s)
    \/ Step(SerialWorker)

Spec == Init /\ [][Next]_vars

----------------------------------------------------------------------------
\* Observations used by the properties

\* load_user_mappings(session_id) run against the store st in one piece.
LoadUserMappings(st, session_id) ==
    IF bucket /\ Exists(st, get_user_mapping_path(session_id))
      THEN Loads(st[get_user_mapping_path(session_id)].data)
      ELSE <<>>

\* The paths of a session's blobs, audio and mapping alike.
SessionBlobs(st, session_id) ==
    { path \in Paths : UnderPrefix(path, session_id) /\ Exists(st, path) }

\* There is no blob at the path (a path no upload can make holds none).
AbsentAt(st, path) == path \notin Paths \/ ~Exists(st, path)

\* The archive's entries other than mapping.tsv, and the text of mapping.tsv.
AudioEntries(z) == { z[i] : i \in { j \in 1..Len(z) : z[j].name # MappingTsv } }

Manifest(z) == (CHOOSE e \in { z[i] : i \in 1..Len(z) } : e.name = MappingTsv).data

\* text.split(sep)
RECURSIVE Split(_, _)
Split(text, sep) ==
    IF \E i \in 1..Len(text) : text[i] = sep
      THEN LET i == CHOOSE j \in 1..Len(text) :
                      text[j] = sep /\ \A k \in 1..(j-1) : text[k] # sep
           IN  <<SubSeq(text, 1, i - 1)>> \o Split(SubSeq(text, i + 1, Len(text)), sep)
      ELSE <<text>>

\* The manifest as a reader of the TSV sees it: the lines after the header,
\* and a row's first column.
Rows(tsv) == Tail(Split(tsv, "\n"))

RowName(row) == Split(row, "\t")[1]

Downloaded(p) == pc[p] = "done" /\ req[p].route = "/download-recordings"

Uploaded(p) == pc[p] = "done" /\ req[p].route = "/upload-audio"

----------------------------------------------------------------------------
\* POST /upload-sentences

\* Longest uploaded sentence file, in characters (a word counts as one).
MaxTextLen == 4

\* The characters of an uploaded file: words, blank, carriage return, line feed.
Chars == {"Hello.", "World.", " ", "\r", "\n"}

\* The file of the scenario "Hello.\n\nWorld.\n  \n".
ExampleText == <<"Hello.", "\n", "\n", "World.", "\n", " ", " ", "\n">>

\* Decoded contents of request.files['file'].
Texts ==
    UNION { [1..n -> Chars] : n \in 0..MaxTextLen } \cup {ExampleText}

\* The characters str.strip() removes.
Whitespace == {" ", "\t", "\r", "\n"}

RECURSIVE LStrip(_)
LStrip(s) ==
    IF s # <<>> /\ Head(s) \in Whitespace THEN LStrip(Tail(s)) ELSE s

RECURSIVE RStrip(_)
RStrip(s) ==
    IF s # <<>> /\ s[Len(s)] \in Whitespace
      THEN RStrip(SubSeq(s, 1, Len(s) - 1))
      ELSE s

\* Faulty variant: only leading whitespace is removed.
StripLeading(s) == LStrip(s)

\* s.strip()
Strip(s) == RStrip(LStrip(s))

\* [s.strip() for s in sentences if s.strip()]
StripNonBlank(lines) ==
    LET truthy(l) == Strip(l) # <<>>
        kept == SelectSeq(lines, truthy)
    IN  [i \in 1..Len(kept) |-> Strip(kept[i])]

\* Faulty variant: the file is opened for appending, so the new list is
\* written after the old one.
UploadAppends(s, text) ==
    /\ nreq < MaxRequests
    /\ nreq' = nreq + 1
    /\ LET sentences == StripNonBlank(Split(text, "\n"))
       IN  /\ sentences_file' =
                 [exists |-> TRUE,
                  text |-> sentences_file.text \o JoinWith(sentences, <<"\n">>)]
           /\ ingested' =
                 [session_id |-> s, text |-> text, response |-> sentences,
                  before |-> sentences_file]
    /\ UNCHANGED <<bucket, store, pc, req, mappings, idx, zf, result,
                   store0, failed, history>>

\* upload(): split on line feeds, strip, drop the blank, write the file anew,
\* return the list.  The handler does not read the session.
Upload(s, text) ==
    /\ nreq < MaxRequests
    /\ nreq' = nreq + 1
    /\ LET sentences == StripNonBlank(Split(text, "\n"))
       IN  /\ sentences_file' =
                 [exists |-> TRUE, text |-> JoinWith(sentences, <<"\n">>)]
           /\ ingested' =
                 [session_id |-> s, text |-> text, response |-> sentences,
                  before |-> sentences_file]
    /\ UNCHANGED <<bucket, store, pc, req, mappings, idx, zf, result,
                   store0, failed, history>>

\* One sentence file is uploaded, of any contents, and nothing else is
\* requested.
NextIngest == nreq = 0 /\ \E s \in Sessions, text \in Texts : Upload(s, text)

SpecIngest == Init /\ [][NextIngest]_vars

\* Two sentence files with different lists.
SomeTexts == { ExampleText, <<"World.", "\r", "\n">> }

\* Sentence files are uploaded, and recordings uploaded and downloaded, by
\* either session, one request at a time.
NextSentences ==
    \/ \E s \in Sessions, text \in SomeTexts : Serial /\ Upload(s, text)
    \/ Next

SpecSentences == Init /\ [][NextSentences]_vars

----------------------------------------------------------------------------
\* Requests handled by two worker threads at once: the steps of two requests
\* interleave at each Blob Store call.

\* Number of requests issued in a run of concurrent requests.
MaxRacing == 3

\* The session whose requests race, and the audio they upload.
RacingSession == "A"

RacingAudio == <<"B1">>

NextConcurrent ==
    \/ \E p \in Workers, t \in Sentences :
          nreq < MaxRacing /\ UploadAudio(p, RacingSession, t, RacingAudio)
    \/ \E p \in Workers :
          nreq < MaxRacing /\ DownloadRecordings(p, RacingSession)
    \/ \E p \in Workers :
          Step(p)

SpecConcurrent == Init /\ [][NextConcurrent]_vars

----------------------------------------------------------------------------
\* /upload-audio requests of one session alone, one after another or two at
\* once.

StepRecord(p) ==
    \/ UploadToFirebase(p)
    \/ LoadExists(p)
    \/ LoadDownload(p)
    \/ SaveUserMappings(p)
    \/ StorageError(p)
    \/ Finish(p)

NextRecord ==
    \/ \E p \in Workers, t \in Sentences :
          nreq < MaxRacing /\ UploadAudio(p, RacingSession, t, RacingAudio)
    \/ \E p \in Workers :
          StepRecord(p)

SpecRecord == Init /\ [][NextRecord]_vars

----------------------------------------------------------------------------
\* Requests handled one at a time with a Blob Store whose calls all succeed.

StepWorking(p) ==
    \/ UploadToFirebase(p)
    \/ LoadExists(p)
    \/ LoadDownload(p)
    \/ SaveUserMappings(p)
    \/ AudioExists(p)
    \/ AudioDownload(p)
    \/ DeleteExists(p)
    \/ DeleteBlob(p)
    \/ MappingExists(p)
    \/ MappingDelete(p)
    \/ Finish(p)

NextWorking ==
    \/ \E s \in Sessions, t \in Sentences, a \in Audio :
          Serial /\ UploadAudio(SerialWorker, s, t, a)
    \/ \E s \in Sessions :
          Serial /\ DownloadRecordings(SerialWorker, s)
    \/ StepWorking(SerialWorker)

SpecWorking == Init /\ [][NextWorking]_vars

----------------------------------------------------------------------------
\* Properties.  A request's response is observed in the state where its
\* worker is at "done": the store is then as the handler left it, and the
\* session's history (last, rec, pure, order) still describes the requests
\* before.

DlLast(r) == [route |-> "/download-recordings", result |-> r]

Names(z) == { e.name : e \in AudioEntries(z) }

Recorded(s) == { t \in Sentences : rec[s][t] # NoAudio }

\* C1: whenever a download returns an archive, the store then holds no blob
\* under the session's prefix, neither audio nor mapping; this is claimed for
\* every history of uploads and downloads handled one at a time, uploads
\* that stopped on a storage error included.
C1_NothingLeftAfterArchive ==
    \A p \in Workers :
        (Downloaded(p) /\ result[p] = "zip")
          => SessionBlobs(store, SessionOf(p)) = {}

\* C2: once a download has returned an archive and that was the session's
\* last request, the session's mapping loads as empty and the next download
\* on the session (its storage calls working) returns 404.
C2_DestructiveOnce ==
    \A s \in Sessions :
        last[s] = DlLast("zip")
          => /\ (\A p \in Workers :
                    ~(SessionOf(p) = s /\ req[p].route = "/upload-audio"))
                   => LoadUserMappings(store, s) = <<>>
             /\ \A p \in Workers :
                    (Downloaded(p) /\ SessionOf(p) = s /\ failed[p] = "")
                      => result[p] = "404"

\* A second download right after one that returned an archive answers 404.
C2_Witness ==
    \E p \in Workers :
        /\ Downloaded(p)
        /\ last[SessionOf(p)] = DlLast("zip")
        /\ result[p] = "404"

\* C3: in a session whose requests so far were uploads that all returned
\* 200, for n >= 1 distinct sentences, a download whose storage calls work
\* returns an archive with exactly one audio entry per sentence, holding the
\* bytes last uploaded for it, and a mapping.tsv of n + 1 lines; claimed with
\* and without a bucket.
C3_ArchiveOfFreshSession ==
    \A p \in Workers :
        LET s == SessionOf(p)
        IN  (Downloaded(p) /\ failed[p] = "" /\ pure[s] /\ Recorded(s) # {})
              => /\ result[p] = "zip"
                 /\ AudioEntries(zf[p]) =
                      { ZipEntry(Filename(t), rec[s][t]) : t \in Recorded(s) }
                 /\ Len(Split(Manifest(zf[p]), "\n")) = Cardinality(Recorded(s)) + 1

\* C4: when an upload of sentence t returns 200 and an earlier upload of t
\* in the session returned 200 with no download in between, the mapping has
\* exactly one entry for t's file name, with value t, it has no more entries
\* than before the request, and the audio blob holds the bytes of this upload.
C4_LastWriteWins ==
    \A p \in Workers :
        LET s == SessionOf(p)
            t == req[p].sentence
            m == LoadUserMappings(store, s)
        IN  (Uploaded(p) /\ result[p] = "200" /\ rec[s][t] # NoAudio)
              => /\ Cardinality({ i \in 1..Len(m) : m[i][1] = Filename(t) }) = 1
                 /\ DictGet(m, Filename(t)) = t
                 /\ Len(m) <= Len(LoadUserMappings(store0[p], s))
                 /\ store[get_user_audio_path(s, Filename(t))] = AudioBlob(req[p].audio)

\* C5: a download on a session whose mapping is absent or empty changes no
\* blob and (its storage call working) returns 404, and so does a second one
\* right after it.
C5_IdempotentOnEmpty ==
    \A p \in Workers :
        (Downloaded(p) /\ LoadUserMappings(store0[p], SessionOf(p)) = <<>>)
          => /\ store = store0[p]
             /\ failed[p] = "" => result[p] = "404"

\* The second of two downloads in a row on a session without recordings.
C5_Witness ==
    \E p \in Workers :
        /\ Downloaded(p)
        /\ bucket
        /\ last[SessionOf(p)] = DlLast("404")
        /\ result[p] = "404"

\* C6: in every download that returns an archive, mapping.tsv has as many
\* data rows as the mapping loaded at the start of the call has entries;
\* every row names an archive entry or a blob that was absent when fetched;
\* and every audio entry of the archive is named by a row.
C6_ManifestMatchesArchive ==
    \A p \in Workers :
        (Downloaded(p) /\ result[p] = "zip")
          => LET s == SessionOf(p)
                 rows == Rows(Manifest(zf[p]))
             IN  /\ mappings[p] = LoadUserMappings(store0[p], s)
                 /\ Len(rows) = Len(mappings[p])
                 /\ \A i \in 1..Len(rows) :
                       \/ RowName(rows[i]) \in Names(zf[p])
                       \/ AbsentAt(store0[p], get_user_audio_path(s, RowName(rows[i])))
                 /\ \A n \in Names(zf[p]) :
                       \E i \in 1..Len(rows) : RowName(rows[i]) = n

\* C7: when the audio blob write of an upload fails, the request ends with
\* an error and the session's mapping blob is exactly as before the request.
C7_FailedWriteLeavesMapping ==
    \A p \in Workers :
        (Uploaded(p) /\ failed[p] = "audio")
          => /\ result[p] = "500"
             /\ store[MappingPath(p)] = store0[p][MappingPath(p)]
             /\ LoadUserMappings(store, SessionOf(p)) =
                  LoadUserMappings(store0[p], SessionOf(p))

\* An upload whose blob write failed, in a session that has a mapping
\* without an entry for the sentence.
C7_Witness ==
    \E p \in Workers :
        /\ Uploaded(p)
        /\ failed[p] = "audio"
        /\ Exists(store, MappingPath(p))
        /\ UploadName(p) \notin Keys(LoadUserMappings(store, SessionOf(p)))

\* C8: a download in which a get or delete on one audio blob fails still
\* returns an archive, with mapping.tsv in it.
C8_BlobFailureTolerated ==
    \A p \in Workers :
        (Downloaded(p) /\ failed[p] = "audio")
          => /\ result[p] = "zip"
             /\ \E i \in 1..Len(zf[p]) : zf[p][i].name = MappingTsv

\* C9: a download that follows an interrupted download of the session (the
\* mapping still there), its own storage calls working, returns an archive
\* whose manifest lists every mapping entry and whose audio entries are the
\* blobs not yet deleted, and leaves no blob under the session's prefix.
C9_RetryAfterInterruption ==
    \A p \in Workers :
        LET s  == SessionOf(p)
            m0 == LoadUserMappings(store0[p], s)
        IN  (Downloaded(p) /\ failed[p] = "" /\ last[s] = DlLast("500") /\ m0 # <<>>)
              => /\ result[p] = "zip"
                 /\ Manifest(zf[p]) = TsvContent(m0)
                 /\ Names(zf[p]) =
                      { k \in Keys(m0) : Exists(store0[p], get_user_audio_path(s, k)) }
                 /\ SessionBlobs(store, s) = {}

\* C10: every Blob Store call of a request is made on a path under its own
\* session's prefix and under no other session's, and no step of a request
\* changes a blob under another session's prefix.
C10_CallsOwnPrefix ==
    \A p \in Workers :
        pc[p] \in StoreCalls =>
            \A s \in Sessions : UnderPrefix(CallPath(p), s) <=> s = SessionOf(p)

C10_OthersUnchanged ==
    \A p \in Workers, s \in Sessions :
        (pc'[p] # pc[p] /\ s # (IF pc[p] = "idle" THEN req'[p].session_id
                                                  ELSE SessionOf(p)))
          => \A path \in Paths : UnderPrefix(path, s) => store'[path] = store[path]

C10_SessionIsolation == [](C10_CallsOwnPrefix) /\ [][C10_OthersUnchanged]_vars

\* A request of session A has changed the store while session B holds
\* blobs, which are as they were when the request began.
C10_Witness ==
    \E p \in Workers :
        /\ pc[p] = "done"
        /\ SessionOf(p) = "A"
        /\ store # store0[p]
        /\ SessionBlobs(store, "B") # {}
        /\ \A path \in Paths : UnderPrefix(path, "B") => store[path] = store0[p][path]

----------------------------------------------------------------------------
\* The sentence file

\* A line of whitespace only.
Blank(line) == \A k \in 1..Len(line) : line[k] \in Whitespace

\* t is line l without the whitespace at its two ends.
IsTrimOf(t, l) ==
    /\ t # <<>>
    /\ t[1] \notin Whitespace
    /\ t[Len(t)] \notin Whitespace
    /\ \E a \in 0..Len(l) :
          /\ a + Len(t) <= Len(l)
          /\ SubSeq(l, a + 1, a + Len(t)) = t
          /\ \A k \in 1..a : l[k] \in Whitespace
          /\ \A k \in (a + Len(t) + 1)..Len(l) : l[k] \in Whitespace

\* C11: the list an ingest returns is the input's lines that are not blank,
\* in their order and each without the whitespace at its ends: as many
\* elements as there are non-blank lines, the i-th element the trimmed form
\* of the i-th non-blank line; and the file written holds that same list.
C11_IngestTrimmedLines ==
    ingested # NoIngest =>
        LET lines == Split(ingested.text, "\n")
            out   == ingested.response
            kept  == { j \in 1..Len(lines) : ~Blank(lines[j]) }
        IN  /\ Len(out) = Cardinality(kept)
            /\ \A j \in kept :
                  IsTrimOf(out[Cardinality({ k \in kept : k <= j })], lines[j])
            /\ sentences_file.exists
            /\ IF out = <<>> THEN sentences_file.text = <<>>
                             ELSE Split(sentences_file.text, "\n") = out

\* The scenario: "Hello.\n\nWorld.\n  \n" yields ["Hello.", "World."].
C11_Witness ==
    /\ ingested.text = ExampleText
    /\ ingested.response = << <<"Hello.">>, <<"World.">> >>

----------------------------------------------------------------------------
\* Concurrent requests of one session

\* The audio blobs of a session in store st, by path.
AudioBlobs(st, session_id) ==
    SessionBlobs(st, session_id) \ {get_user_mapping_path(session_id)}

\* C12: no step of an /upload-audio request removes an audio blob of its
\* session or makes a key of the session's persisted mapping absent from
\* it, whatever other requests of the session run at the same time.
C12_RecordStepKeeps ==
    \A p \in Workers :
        (req[p].route = "/upload-audio" /\ pc'[p] # pc[p])
          => LET s == SessionOf(p)
             IN  /\ AudioBlobs(store, s) \subseteq AudioBlobs(store', s)
                 /\ Keys(LoadUserMappings(store, s))
                       \subseteq Keys(LoadUserMappings(store', s))

C12_SoleDestroyer == [][C12_RecordStepKeeps]_vars

\* The file names in the first column of an archive's mapping.tsv.
ManifestNames(z) ==
    LET rows == Rows(Manifest(z))
    IN  { RowName(rows[i]) : i \in 1..Len(rows) }

\* C13: the last save wins.  The save step of an /upload-audio request
\* leaves as the session's persisted mapping the mapping that request
\* loaded, with its own entry set; what another request saved after that
\* load is dropped.  A lost update is reachable (C13_LostUpdate).
C13_SaveStep ==
    \A p \in Workers :
        (bucket /\ pc[p] = "ua_save" /\ pc'[p] = "done" /\ result'[p] = "200")
          => LoadUserMappings(store', SessionOf(p)) =
               DictSet(mappings[p], UploadName(p), req[p].sentence)

C13_LastSaveWins == [][C13_SaveStep]_vars

\* An upload and a download of one session have both answered with
\* success, no storage call of either failed, and the entry the upload set
\* is neither in the persisted mapping nor in the archive's manifest.
C13_LostUpdate ==
    \E p, q \in Workers :
        /\ bucket
        /\ Uploaded(p) /\ result[p] = "200" /\ failed[p] = ""
        /\ Downloaded(q) /\ result[q] = "zip" /\ failed[q] = ""
        /\ SessionOf(p) = SessionOf(q)
        /\ UploadName(p) \notin Keys(LoadUserMappings(store, SessionOf(p)))
        /\ UploadName(p) \notin ManifestNames(zf[q])

----------------------------------------------------------------------------
\* Recording alone

\* C14: as long as only /upload-audio requests are made, in every state,
\* between the steps of requests and after failed steps too, every key of a
\* session's persisted mapping has a blob at its audio path.
C14_NoDanglingEntry ==
    \A s \in Sessions :
        \A k \in Keys(LoadUserMappings(store, s)) :
            Exists(store, get_user_audio_path(s, k))

\* A request has put the blob of a sentence new to its session's mapping,
\* which has an entry already, and has not saved yet.
C14_Witness ==
    \E p \in Workers :
        /\ pc[p] = "ua_save"
        /\ Keys(LoadUserMappings(store, SessionOf(p))) # {}
        /\ UploadName(p) \notin Keys(LoadUserMappings(store, SessionOf(p)))
        /\ Exists(store, AudioPath(p))

----------------------------------------------------------------------------
\* Order of the manifest

\* The first column of the data rows of a mapping.tsv, row by row.
RowNames(tsv) == [i \in 1..Len(Rows(tsv)) |-> RowName(Rows(tsv)[i])]

\* C15: in every archive returned, the data rows of mapping.tsv name the
\* session's files in the order of their first recording since the mapping
\* was created, one row per file: a recording made again neither moves nor
\* adds a row, and the order is that of the mapping saved and loaded between
\* the requests.
C15_ManifestInsertionOrder ==
    \A p \in Workers :
        (Downloaded(p) /\ result[p] = "zip")
          => RowNames(Manifest(zf[p])) = order[SessionOf(p)]

----------------------------------------------------------------------------
\* The sentence list

\* The list a reader finds in the sentence file.
StoredList(file) == IF file.text = <<>> THEN <<>> ELSE Split(file.text, "\n")

\* C16: there is one sentence file for all sessions; whatever requests were
\* made, by whichever sessions, it holds exactly the list the latest
\* /upload-sentences request returned, and no file before the first such
\* request: no step of /upload-audio or /download-recordings changes it.
C16_SentenceListReplaced ==
    IF ingested = NoIngest
      THEN sentences_file = NoFile
      ELSE /\ sentences_file.exists
           /\ StoredList(sentences_file) = ingested.response

\* Session B's list has replaced a different list uploaded before it, and a
\* download of session A has returned an archive.
C16_Witness ==
    /\ ingested.session_id = "B"
    /\ ingested.before.exists
    /\ StoredList(ingested.before) # ingested.response
    /\ \E p \in Workers :
          Downloaded(p) /\ SessionOf(p) = "A" /\ result[p] = "zip"

----------------------------------------------------------------------------
\* Concurrent downloads

\* C17: when two downloads of one session, running at the same time, have
\* both returned an archive, no recording is in both archives.
C17_OneTimeClaim ==
    \A p, q \in Workers :
        (/\ p # q
         /\ Downloaded(p) /\ result[p] = "zip"
         /\ Downloaded(q) /\ result[q] = "zip"
         /\ SessionOf(p) = SessionOf(q))
          => AudioEntries(zf[p]) \cap AudioEntries(zf[q]) = {}

----------------------------------------------------------------------------
\* Quiescence

\* C18: with requests one at a time and every storage call succeeding,
\* whenever no request is in flight the audio blobs under a session's prefix
\* are exactly the blobs of the keys of its persisted mapping.
C18_QuiescentConsistency ==
    Serial =>
        \A s \in Sessions :
            AudioBlobs(store, s) =
                { get_user_audio_path(s, k) : k \in Keys(LoadUserMappings(store, s)) }

\* No request in flight; one session has had its recordings downloaded and
\* the other holds two.
C18_Witness ==
    /\ Serial
    /\ last["B"] = DlLast("zip")
    /\ Cardinality(AudioBlobs(store, "A")) = 2

====
